---- MODULE Spec2Model ----
(***************************************************************************)
(* A model of the near-Earth-object store (database.py), its record model  *)
(* (models.py) and its predicate library (filters.py).                     *)
(*                                                                         *)
(* Objects are identified by their position in the collection that holds   *)
(* them: body i is neos[i], event j is approaches[j].  The two fields the  *)
(* constructor of the store mutates (CloseApproach.neo and                 *)
(* NearEarthObject.approaches) are the variables neoRef and neoApproaches. *)
(* A Python exception is the name of its class; NoExc is "no exception".   *)
(***************************************************************************)
EXTENDS Integers, Sequences, FiniteSets, TLC

\* ---------------------------------------------------------------- values

\* Python's None, kept apart from every string the data can hold.
None == "<None>"

\* float('nan'): no number of the data is negative, so -1 stands for it.
NaN == -1

\* No exception was raised.
NoExc == "-"

\* A reference to no body (CloseApproach.neo = None; a lookup returning None).
NoNeo == 0

\* ---------------------------------------------------------------- bounds

MaxNeos == 2
MaxApproaches == 2

\* Rows of the body data set as extract.load_neos reads them: <<pdes, name,
\* diameter, pha>>.  Two rows can share a designation or a name; a name, a
\* diameter and a hazard code can be empty.
NeoRows == {<<"433", "Eros", "16", "N">>,
            <<"433", "", "", "Y">>,
            <<"1036", "Ganymed", "38", "Y">>,
            <<"1036", "Eros", "", "">>}

\* The designations the events of the event data set refer to: those of the
\* rows above and one no body has.
ApproachDesignations == {"433", "1036", "999"}

\* Arguments the lookups are tried with.
LookupDesignations == ApproachDesignations
LookupNames == {None, "", "Eros", "Ganymed", "Zed"}

\* The filter collections query is tried with.
QueryFilters ==
    {<<>>,
     <<[kind |-> "DiameterFilter", op |-> "ge", value |-> 10]>>,
     <<[kind |-> "DiameterFilter", op |-> "ge", value |-> 20]>>,
     <<[kind |-> "DiameterFilter", op |-> "le", value |-> 20],
       [kind |-> "HazardousFilter", op |-> "eq", value |-> TRUE]>>,
     <<[kind |-> "AttributeFilter", op |-> "eq", value |-> 10]>>}

\* The single filters that are called on an event: one of each class, the
\* base class included.
CallFilters ==
    {[kind |-> "DateFilter", op |-> "eq", value |-> 20200101],
     [kind |-> "DistanceFilter", op |-> "le", value |-> 20],
     [kind |-> "VelocityFilter", op |-> "ge", value |-> 5],
     [kind |-> "DiameterFilter", op |-> "ge", value |-> 10],
     [kind |-> "DiameterFilter", op |-> "le", value |-> 10],
     [kind |-> "HazardousFilter", op |-> "eq", value |-> TRUE],
     [kind |-> "AttributeFilter", op |-> "eq", value |-> 10]}

\* The filter collections a whole query is run with: those above and the
\* two-filter collection in the other order.
PermFilters ==
    QueryFilters \cup
    {<<[kind |-> "HazardousFilter", op |-> "eq", value |-> TRUE],
       [kind |-> "DiameterFilter", op |-> "le", value |-> 20]>>}

\* The n arguments limit is tried with (<<>> is None), and the plain streams.
MaxLimit == 2
LimitBounds == {<<>>} \cup {<<k>> : k \in 0..MaxLimit}
MaxStream == 3
StreamValues == {"a", "b"}

\* The values create_filters is tried with: each criterion None (<<>>) or one
\* value of its type, and the names of the keyword arguments beyond the ten.
OptDates == {<<>>, <<20200101>>}
OptNumbers == {<<>>, <<10>>}
OptFlags == {<<>>, <<TRUE>>, <<FALSE>>}
Criteria ==
    {[date |-> d, start_date |-> sd, end_date |-> ed,
      distance_min |-> dmin, distance_max |-> dmax,
      velocity_min |-> vmin, velocity_max |-> vmax,
      diameter_min |-> kmin, diameter_max |-> kmax, hazardous |-> h] :
        d \in OptDates, sd \in OptDates, ed \in OptDates,
        dmin \in OptNumbers, dmax \in OptNumbers,
        vmin \in OptNumbers, vmax \in OptNumbers,
        kmin \in OptNumbers, kmax \in OptNumbers, h \in OptFlags}
ExtraArgs == {<<>>, <<"limit">>, <<"limit", "outfile">>}

\* The raw values the two constructors are tried with: absent (None), empty,
\* well-formed and malformed.
RawDesignations == {"433", "1036"}
RawNames == {None, "", "Eros"}
RawDiameters == {None, "", "16", "abc"}
RawPhas == {None, "", "N", "Y"}
RawTimes == {None, "2020-Jan-02 12:30", "2020-13-01"}
RawDistances == {None, "", "15", "abc"}
RawVelocities == {None, "", "5", "abc"}

Range(f) == {f[i] : i \in DOMAIN f}

SeqsUpTo(S, n) == UNION {[1..k -> S] : k \in 0..n}

\* ---------------------------------------------------------------- models.py

\* Python truthiness of a raw value: None and the empty string are falsy.
Truthy(x) == x # None /\ x # ""

\* The strings float() accepts, and float(s) for them (whole numbers stand
\* for the floats of the data).  Every other string makes float() raise
\* ValueError.
Parseable(s) == s \in {"16", "38", "15", "5"}
Float(s) == CASE s = "16" -> 16
              [] s = "38" -> 38
              [] s = "15" -> 15
              [] s = "5" -> 5

\* helpers.cd_to_datetime: the strings of the format `YYYY-Mon-DD hh:mm`, and
\* the datetime each one parses to (its calendar date and its minute of the
\* day).  Every other string makes it raise ValueError.
WellFormedTime(s) == s \in {"2020-Jan-01 00:00", "2020-Jan-02 12:30"}
CdToDatetime(s) ==
    CASE s = "2020-Jan-01 00:00" -> [date |-> 20200101, minute |-> 0]
      [] s = "2020-Jan-02 12:30" -> [date |-> 20200102, minute |-> 750]

\* A NearEarthObject whose hazardous flag is the truth value of the raw code.
NearEarthObjectAnyCode(designation, name, diameter, hazardous) ==
    [designation |-> designation,
     name        |-> IF Truthy(name) THEN name ELSE None,
     diameter    |-> IF Truthy(diameter) THEN Float(diameter) ELSE NaN,
     hazardous   |-> Truthy(hazardous)]

\* NearEarthObject.__init__ (the approaches list is neoApproaches).
NearEarthObject(designation, name, diameter, hazardous) ==
    [designation |-> designation,
     name        |-> IF Truthy(name) THEN name ELSE None,
     diameter    |-> IF Truthy(diameter) THEN Float(diameter) ELSE NaN,
     hazardous   |-> IF ~Truthy(hazardous) THEN FALSE
                     ELSE IF hazardous = "N" THEN FALSE ELSE TRUE]

\* The bodies extract.load_neos can hand to the store.
NearEarthObjects ==
    {NearEarthObject(r[1], r[2], r[3], r[4]) : r \in NeoRows}

\* CloseApproach.__init__: the scalar fields (its neo reference is neoRef).
CloseApproach(designation, time, distance, velocity) ==
    [_designation |-> designation,
     time         |-> IF Truthy(time) THEN CdToDatetime(time) ELSE None,
     distance     |-> IF Truthy(distance) THEN Float(distance) ELSE NaN,
     velocity     |-> IF Truthy(velocity) THEN Float(velocity) ELSE NaN]

\* The events extract.load_approaches can hand to the store.
CloseApproaches ==
    {CloseApproach(d, "2020-Jan-01 00:00", "15", "5") : d \in ApproachDesignations}

\* ---------------------------------------------------------------- state

VARIABLES
    neos,               \* the bodies passed to NEODatabase(neos, approaches)
    approaches,         \* the events the approaches iterable produces
    oneShot,            \* the approaches iterable is an iterator (one pass only)
    phase,              \* "constructing" | "ready" | "failed"
    exc,                \* the exception NEODatabase.__init__ raised, or NoExc
    _approaches,        \* self._approaches: event ids, in order
    _neo_designations,  \* self._neo_designations: designation -> body id
    _neo_names,         \* self._neo_names: name -> body id
    neoRef,             \* event id -> body id (CloseApproach.neo), NoNeo if None
    neoApproaches,      \* body id -> event ids (NearEarthObject.approaches)
    ret,                \* the last call that returned at once: [op, arg, val, exc]
    qState,             \* the generator query() returned: "none" | "created" |
                        \*   "suspended" | "done" | "raised"
    qFilters,           \* its filters argument
    qPos,               \* how many events its loop has taken from _approaches
    qTouched,           \* the event ids its loop body has worked on
    qYielded,           \* the event ids it has yielded, in order
    qPulls,             \* how many times next() was called on it
    qExc,               \* the exception that ended it, or NoExc
    lState,             \* the generator limit() returned: "none" | "created" |
                        \*   "suspended" | "done" | "raised"
    lSrc,               \* its iterator argument: "query" (the generator above)
                        \*   or "stream" (an iterator over the variable stream)
    lN,                 \* its n argument: Absent for None, Some(k) for k
    lYielded,           \* the values it has yielded, in order
    lTaken,             \* how many values it has taken from its iterator argument
    lExc,               \* the exception that ended it, or NoExc
    stream,             \* the values a plain iterator handed to limit produces
    crit,               \* create_filters: the ten named arguments
    extra,              \* create_filters: the names of the further keyword arguments
    cfState,            \* "none" | "returned"
    filters             \* create_filters: the list it returned

storeVars == <<neos, approaches, oneShot, phase, exc, _approaches,
               _neo_designations, _neo_names, neoRef, neoApproaches>>

queryVars == <<qState, qFilters, qPos, qTouched, qYielded, qPulls, qExc>>

limitVars == <<lState, lSrc, lN, lYielded, lTaken, lExc>>

filterVars == <<crit, extra, cfState, filters>>

vars == <<storeVars, ret, queryVars, limitVars, stream, filterVars>>

NoCall == [op |-> "none", arg |-> None, val |-> NoNeo, exc |-> NoExc]

\* ---------------------------------------------------------------- constructors

\* NearEarthObject(designation, name, diameter, hazardous) as a call: the
\* object, or the ValueError of float(diameter).
NewNearEarthObject(designation, name, diameter, hazardous) ==
    /\ ret' = IF Truthy(diameter) /\ ~Parseable(diameter)
              THEN [op |-> "NearEarthObject",
                    arg |-> <<designation, name, diameter, hazardous>>,
                    val |-> None, exc |-> "ValueError"]
              ELSE [op |-> "NearEarthObject",
                    arg |-> <<designation, name, diameter, hazardous>>,
                    val |-> NearEarthObject(designation, name, diameter, hazardous),
                    exc |-> NoExc]
    /\ UNCHANGED <<storeVars, queryVars, limitVars, stream, filterVars>>

\* CloseApproach(designation, time, distance, velocity) as a call: the
\* object, or the ValueError of cd_to_datetime(time), float(distance) or
\* float(velocity).
NewCloseApproach(designation, time, distance, velocity) ==
    /\ ret' = IF \/ Truthy(time) /\ ~WellFormedTime(time)
                 \/ Truthy(distance) /\ ~Parseable(distance)
                 \/ Truthy(velocity) /\ ~Parseable(velocity)
              THEN [op |-> "CloseApproach",
                    arg |-> <<designation, time, distance, velocity>>,
                    val |-> None, exc |-> "ValueError"]
              ELSE [op |-> "CloseApproach",
                    arg |-> <<designation, time, distance, velocity>>,
                    val |-> CloseApproach(designation, time, distance, velocity),
                    exc |-> NoExc]
    /\ UNCHANGED <<storeVars, queryVars, limitVars, stream, filterVars>>

\* ---------------------------------------------------------------- database.py

\* The empty dict, and d[k] = v.
EmptyDict == <<>>
DictSet(d, k, v) == (k :> v) @@ d

\* The first loop of __init__: index bodies i..Len(neos) by designation, and by
\* name when the name is truthy.  Returns <<designations, names>>.
RECURSIVE IndexNeos(_, _, _, _)
IndexNeos(ns, i, des, names) ==
    IF i > Len(ns) THEN <<des, names>>
    ELSE IndexNeos(ns, i + 1,
                   DictSet(des, ns[i].designation, i),
                   IF Truthy(ns[i].name) THEN DictSet(names, ns[i].name, i)
                   ELSE names)

\* What a second pass over the approaches argument produces: `list(approaches)`
\* has already consumed it, so an iterator has nothing left.
SecondPass(as, once) == IF once THEN <<>> ELSE [j \in 1..Len(as) |-> j]

\* The second loop of __init__ over the event ids todo[k..]: look the event's
\* _designation up in the designation index (a KeyError when it is missing:
\* the defaultdict has no default factory), set its neo, append it to the
\* body's approaches.  Returns the links made and the exception raised.
RECURSIVE LinkApproaches(_, _, _, _, _, _)
LinkApproaches(as, des, todo, k, ref, apps) ==
    IF k > Len(todo) THEN [ref |-> ref, apps |-> apps, exc |-> NoExc]
    ELSE LET j == todo[k]
             d == as[j]._designation
         IN  IF d \notin DOMAIN des
             THEN [ref |-> ref, apps |-> apps, exc |-> "KeyError"]
             ELSE LinkApproaches(as, des, todo, k + 1,
                                 [ref EXCEPT ![j] = des[d]],
                                 [apps EXCEPT ![des[d]] = Append(@, j)])

\* NEODatabase.__init__
NEODatabaseInit ==
    /\ phase = "constructing"
    /\ LET idx    == IndexNeos(neos, 1, EmptyDict, EmptyDict)
           linked == LinkApproaches(approaches, idx[1],
                                    SecondPass(approaches, oneShot), 1,
                                    neoRef, neoApproaches)
       IN  /\ _approaches' = [j \in 1..Len(approaches) |-> j]
           /\ _neo_designations' = idx[1]
           /\ _neo_names' = idx[2]
           /\ neoRef' = linked.ref
           /\ neoApproaches' = linked.apps
           /\ exc' = linked.exc
           /\ phase' = IF linked.exc = NoExc THEN "ready" ELSE "failed"
    /\ UNCHANGED <<neos, approaches, oneShot, ret>>
    /\ UNCHANGED <<queryVars, limitVars, stream, filterVars>>

\* The body of both lookups: each loops over the keys of
\* self._neo_designations and subscripts the key, a string, with a string
\* (item['designation'], item['name']): a TypeError in the first iteration.
\* Only an empty index reaches `return None`.
LookupLoop(index) ==
    IF DOMAIN index = {} THEN [val |-> NoNeo, exc |-> NoExc]
    ELSE [val |-> NoNeo, exc |-> "TypeError"]

\* NEODatabase.get_neo_by_designation
GetNeoByDesignation(designation) ==
    /\ phase = "ready"
    /\ LET r == LookupLoop(_neo_designations)
       IN  ret' = [op |-> "get_neo_by_designation", arg |-> designation,
                   val |-> r.val, exc |-> r.exc]
    /\ UNCHANGED <<storeVars, queryVars, limitVars, stream, filterVars>>

\* NEODatabase.get_neo_by_name
GetNeoByName(name) ==
    /\ phase = "ready"
    /\ LET r == LookupLoop(_neo_designations)
       IN  ret' = [op |-> "get_neo_by_name", arg |-> name,
                   val |-> r.val, exc |-> r.exc]
    /\ UNCHANGED <<storeVars, queryVars, limitVars, stream, filterVars>>

\* ---------------------------------------------------------------- filters.py

\* An optional argument: Absent is None, Some(v) is the value v.
Absent == <<>>
Some(v) == <<v>>

\* An AttributeFilter object: the class it was made from, op and value.
Filter(kind, op, value) == [kind |-> kind, op |-> op, value |-> value]

\* operator.eq / operator.le / operator.ge on numbers and booleans; every
\* comparison with float('nan') is false.
Compare(op, x, y) ==
    IF x = NaN \/ y = NaN THEN FALSE
    ELSE CASE op = "eq" -> x = y
           [] op = "le" -> x <= y
           [] op = "ge" -> x >= y

\* The get classmethod of each filter class on event j.  Every subclass reads
\* approach.neo.<attribute>: an AttributeError when neo is None, and when the
\* body has no such attribute (date, distance and velocity are not attributes
\* of a NearEarthObject).  The base class raises UnsupportedCriterionError.
Get(kind, j) ==
    IF kind = "AttributeFilter"
    THEN [val |-> NaN, exc |-> "UnsupportedCriterionError"]
    ELSE IF neoRef[j] = NoNeo \/ kind \in {"DateFilter", "DistanceFilter", "VelocityFilter"}
    THEN [val |-> NaN, exc |-> "AttributeError"]
    ELSE IF kind = "DiameterFilter"
    THEN [val |-> neos[neoRef[j]].diameter, exc |-> NoExc]
    ELSE [val |-> neos[neoRef[j]].hazardous, exc |-> NoExc]

\* AttributeFilter.__call__: self.op(self.get(approach), self.value)
Call(f, j) ==
    LET g == Get(f.kind, j)
    IN  IF g.exc # NoExc THEN [val |-> FALSE, exc |-> g.exc]
        ELSE IF f.kind = "HazardousFilter"
        THEN [val |-> g.val = f.value, exc |-> NoExc]
        ELSE [val |-> Compare(f.op, g.val, f.value), exc |-> NoExc]

\* f(approach) for a filter f and event j of the store.
FilterCall(f, j) ==
    /\ phase = "ready"
    /\ j \in Range(_approaches)
    /\ LET r == Call(f, j)
       IN  ret' = [op |-> "call", arg |-> <<f, j>>, val |-> r.val, exc |-> r.exc]
    /\ UNCHANGED <<storeVars, queryVars, limitVars, stream, filterVars>>

\* ---------------------------------------------------------------- query

\* The five tests of the loop body of query, in order: each calls an attribute
\* of the class AttributeFilter with the approach as its only argument.
QueryTests == <<"DateFilter", "DistancerFilter", "VelocityFilter",
                "DiameterFilter", "HazardousFilter">>

\* AttributeFilter.<name>(approach): `DistancerFilter` names no attribute of
\* the class (AttributeError); the others are filter classes, and
\* __init__(self, op, value) is called without `value` (TypeError).
ClassCall(name, j) ==
    IF name = "DistancerFilter" THEN [truthy |-> FALSE, exc |-> "AttributeError"]
    ELSE [truthy |-> TRUE, exc |-> "TypeError"]

\* The tests t.. of the loop body on event j: "raise" with the exception,
\* "continue" when a test is truthy, "yield" when all are falsy.
RECURSIVE LoopBody(_, _)
LoopBody(j, t) ==
    IF t > Len(QueryTests) THEN [how |-> "yield", exc |-> NoExc]
    ELSE LET c == ClassCall(QueryTests[t], j)
         IN  IF c.exc # NoExc THEN [how |-> "raise", exc |-> c.exc]
             ELSE IF c.truthy THEN [how |-> "continue", exc |-> NoExc]
             ELSE LoopBody(j, t + 1)

\* The generator of query resumed with pos events already taken: it runs to
\* its next yield, to the end of self._approaches, or to an exception.  (The
\* filters argument is not read by the body.)
RECURSIVE QueryRun(_, _)
QueryRun(pos, touched) ==
    IF pos >= Len(_approaches)
    THEN [state |-> "done", pos |-> pos, touched |-> touched,
          out |-> <<>>, exc |-> NoExc]
    ELSE LET j == _approaches[pos + 1]
             b == LoopBody(j, 1)
             t == touched \cup {j}
         IN  CASE b.how = "raise" ->
                    [state |-> "raised", pos |-> pos + 1, touched |-> t,
                     out |-> <<>>, exc |-> b.exc]
               [] b.how = "yield" ->
                    [state |-> "suspended", pos |-> pos + 1, touched |-> t,
                     out |-> <<j>>, exc |-> NoExc]
               [] OTHER -> QueryRun(pos + 1, t)

\* A call of query that runs the loop before it returns (a function that
\* builds its result, not a generator).
QueryCallEager(P) ==
    /\ phase = "ready"
    /\ qState = "none"
    /\ LET r == QueryRun(0, {})
       IN  /\ qState' = "created"
           /\ qPos' = r.pos
           /\ qTouched' = r.touched
           /\ qYielded' = <<>>
           /\ qExc' = NoExc
    /\ qFilters' = P
    /\ qPulls' = 0
    /\ UNCHANGED <<storeVars, ret, limitVars, stream, filterVars>>

\* NEODatabase.query(filters): a generator function, so the call runs none of
\* the body.  (A run follows one stream of query and one of limit.)
QueryCall(P) ==
    /\ phase = "ready"
    /\ qState = "none"
    /\ qState' = "created"
    /\ qFilters' = P
    /\ qPos' = 0
    /\ qTouched' = {}
    /\ qYielded' = <<>>
    /\ qPulls' = 0
    /\ qExc' = NoExc
    /\ UNCHANGED <<storeVars, ret, limitVars, stream, filterVars>>

\* A next() that takes the event it works on off the store's list.
QueryNextConsuming ==
    /\ qState \in {"created", "suspended"}
    /\ LET r == QueryRun(qPos, qTouched)
       IN  /\ qState' = r.state
           /\ qPos' = r.pos
           /\ qTouched' = r.touched
           /\ qYielded' = qYielded \o r.out
           /\ qExc' = r.exc
    /\ qPulls' = qPulls + 1
    /\ _approaches' = IF _approaches = <<>> THEN <<>> ELSE Tail(_approaches)
    /\ UNCHANGED <<neos, approaches, oneShot, phase, exc, _neo_designations,
                   _neo_names, neoRef, neoApproaches>>
    /\ UNCHANGED <<qFilters, ret, limitVars, stream, filterVars>>

\* next() on the generator of query.
QueryNext ==
    /\ qState \in {"created", "suspended"}
    /\ LET r == QueryRun(qPos, qTouched)
       IN  /\ qState' = r.state
           /\ qPos' = r.pos
           /\ qTouched' = r.touched
           /\ qYielded' = qYielded \o r.out
           /\ qExc' = r.exc
    /\ qPulls' = qPulls + 1
    /\ UNCHANGED <<qFilters, storeVars, ret, limitVars, stream, filterVars>>

\* The generator of query run from pos to its end, as list(...) runs it: the
\* events yielded, and the exception that ended it.
RECURSIVE QueryDrain(_, _, _)
QueryDrain(pos, touched, out) ==
    LET r == QueryRun(pos, touched)
    IN  IF r.state = "suspended" THEN QueryDrain(r.pos, r.touched, out \o r.out)
        ELSE [yielded |-> out, exc |-> r.exc]

\* A query that tests the first filter of the collection only.
QueryAllFirstOnly(P) ==
    /\ phase = "ready"
    /\ ret' = [op |-> "query", arg |-> P,
               val |-> SelectSeq(_approaches,
                                 LAMBDA j : P = <<>> \/ Call(P[1], j).val),
               exc |-> NoExc]
    /\ UNCHANGED <<storeVars, queryVars, limitVars, stream, filterVars>>

\* list(db.query(P)): a stream of query consumed to its end in one go.
QueryAll(P) ==
    /\ phase = "ready"
    /\ LET r == QueryDrain(0, {}, <<>>)
       IN  ret' = [op |-> "query", arg |-> P, val |-> r.yielded, exc |-> r.exc]
    /\ UNCHANGED <<storeVars, queryVars, limitVars, stream, filterVars>>

\* ---------------------------------------------------------------- limit

\* limit(iterator, n): a generator function, so the call runs none of the body.
LimitCall(src, n) ==
    /\ lState = "none"
    /\ lState' = "created"
    /\ lSrc' = src
    /\ lN' = n
    /\ lYielded' = <<>>
    /\ lTaken' = 0
    /\ lExc' = NoExc
    /\ UNCHANGED <<storeVars, ret, queryVars, stream, filterVars>>

\* The first next() on the generator of limit.  With n 0 or None the body
\* returns at once, which ends the stream.  Otherwise it evaluates
\* iterator(range(n)): the iterator argument (a generator, or an iterator
\* over a collection) is not callable, a TypeError before any value is taken
\* from it, so the loop after it is never entered.
LimitNext ==
    /\ lState = "created"
    /\ IF lN = Absent \/ lN = Some(0)
       THEN lState' = "done" /\ lExc' = NoExc
       ELSE lState' = "raised" /\ lExc' = "TypeError"
    /\ UNCHANGED <<lSrc, lN, lYielded, lTaken>>
    /\ UNCHANGED <<storeVars, ret, queryVars, stream, filterVars>>

\* ---------------------------------------------------------------- create_filters

\* params: the names of the ten criteria, in the order of the list.
Params == <<"date", "start_date", "end_date", "distance_min", "distance_max",
            "velocity_min", "velocity_max", "diameter_min", "diameter_max",
            "hazardous">>

\* The ten `if` statements of the loop body, in order: the key tested, and the
\* class and operator of the filter made for it.
Branches ==
    <<[key |-> "date",         kind |-> "DateFilter",      op |-> "eq"],
      [key |-> "start_date",   kind |-> "DateFilter",      op |-> "le"],
      [key |-> "end_date",     kind |-> "DateFilter",      op |-> "ge"],
      [key |-> "distance_min", kind |-> "DistanceFilter",  op |-> "ge"],
      [key |-> "distance_max", kind |-> "DistanceFilter",  op |-> "le"],
      [key |-> "velocity_min", kind |-> "VelocityFilter",  op |-> "ge"],
      [key |-> "velocity_max", kind |-> "VelocityFilter",  op |-> "le"],
      [key |-> "diameter_min", kind |-> "DiameterFilter",  op |-> "ge"],
      [key |-> "diameter_max", kind |-> "DiameterFilter",  op |-> "le"],
      [key |-> "hazardous",    kind |-> "HazardousFilter", op |-> "eq"]>>

\* params_values: one entry per key of **args, the key itself when truthy.
ParamsValues(args) ==
    [i \in 1..Len(args) |-> IF Truthy(args[i]) THEN args[i] ELSE None]

Min(a, b) == IF a <= b THEN a ELSE b

\* filter_dict = dict(zip(params, params_values))
FilterDict(args) ==
    LET pv == ParamsValues(args)
        n  == Min(Len(Params), Len(pv))
    IN  [k \in {Params[i] : i \in 1..n} |->
            pv[CHOOSE i \in 1..n : Params[i] = k]]

\* filter_dict.get(key)
DictGet(d, key) == IF key \in DOMAIN d THEN d[key] ELSE None

\* query_collection after the loop over filter_dict.items(): its items in
\* insertion order.  Every pass of the loop runs the same ten tests on
\* filter_dict, so the passes after the first change nothing, and an empty
\* filter_dict leaves query_collection empty.
RECURSIVE QueryCollection(_, _)
QueryCollection(fd, b) ==
    IF b > Len(Branches) \/ DOMAIN fd = {} THEN <<>>
    ELSE LET v == DictGet(fd, Branches[b].key)
         IN  (IF Truthy(v)
              THEN <<[key |-> Branches[b].key,
                      item |-> Filter(Branches[b].kind, Branches[b].op, v)]>>
              ELSE <<>>)
             \o QueryCollection(fd, b + 1)

\* The list create_filters returns: result.append(query_collection), a list
\* whose one element is the dict.
CreateFiltersResult(named, args) ==
    <<[dict |-> QueryCollection(FilterDict(args), 1)]>>

\* create_filters(date=..., ..., hazardous=..., **args)
CreateFilters ==
    /\ cfState = "none"
    /\ filters' = CreateFiltersResult(crit, extra)
    /\ cfState' = "returned"
    /\ UNCHANGED <<crit, extra>>
    /\ UNCHANGED <<storeVars, ret, queryVars, limitVars, stream>>

\* ---------------------------------------------------------------- specification

InitStore ==
    /\ neos \in SeqsUpTo(NearEarthObjects, MaxNeos)
    /\ approaches \in SeqsUpTo(CloseApproaches, MaxApproaches)
    /\ oneShot \in BOOLEAN
    /\ phase = "constructing"
    /\ exc = NoExc
    /\ _approaches = <<>>
    /\ _neo_designations = EmptyDict
    /\ _neo_names = EmptyDict
    /\ neoRef = [j \in 1..Len(approaches) |-> NoNeo]
    /\ neoApproaches = [i \in 1..Len(neos) |-> <<>>]

\* No store is being built (the specifications of the pure functions).
InitNoStore ==
    /\ neos = <<>>
    /\ approaches = <<>>
    /\ oneShot = FALSE
    /\ phase = "none"
    /\ exc = NoExc
    /\ _approaches = <<>>
    /\ _neo_designations = EmptyDict
    /\ _neo_names = EmptyDict
    /\ neoRef = <<>>
    /\ neoApproaches = <<>>

InitNoQuery ==
    /\ qState = "none"
    /\ qFilters = <<>>
    /\ qPos = 0
    /\ qTouched = {}
    /\ qYielded = <<>>
    /\ qPulls = 0
    /\ qExc = NoExc

InitNoLimit ==
    /\ lState = "none"
    /\ lSrc = "none"
    /\ lN = Absent
    /\ lYielded = <<>>
    /\ lTaken = 0
    /\ lExc = NoExc

InitNoFilters ==
    /\ crit = <<>>
    /\ extra = <<>>
    /\ cfState = "none"
    /\ filters = <<>>

\* The store and its lookups.
Init ==
    /\ InitStore
    /\ ret = NoCall
    /\ InitNoQuery
    /\ InitNoLimit
    /\ stream = <<>>
    /\ InitNoFilters

Next ==
    \/ NEODatabaseInit
    \/ \E d \in LookupDesignations : GetNeoByDesignation(d)
    \/ \E n \in LookupNames : GetNeoByName(n)

Spec == Init /\ [][Next]_vars

\* The store, query on it, and limit on the stream of query.
LimitOfQuery(n) ==
    /\ qState # "none"
    /\ LimitCall("query", n)

NextQuery ==
    \/ NEODatabaseInit
    \/ \E P \in QueryFilters : QueryCall(P)
    \/ QueryNext
    \/ \E n \in LimitBounds : LimitOfQuery(n)
    \/ LimitNext

SpecQuery == Init /\ [][NextQuery]_vars

\* The store and two streams of query on it: one pulled value by value, one
\* consumed whole.
NextPerm ==
    \/ NEODatabaseInit
    \/ \E P \in PermFilters : QueryCall(P)
    \/ QueryNext
    \/ \E P \in PermFilters : QueryAll(P)

SpecPerm == Init /\ [][NextPerm]_vars

\* The store, its lookups and a stream of query, in any order.
NextStore ==
    \/ NEODatabaseInit
    \/ \E d \in LookupDesignations : GetNeoByDesignation(d)
    \/ \E n \in LookupNames : GetNeoByName(n)
    \/ \E P \in QueryFilters : QueryCall(P)
    \/ QueryNext

SpecStore == Init /\ [][NextStore]_vars

\* The store and single filters called on its events.
NextCall ==
    \/ NEODatabaseInit
    \/ \E f \in CallFilters, j \in 1..MaxApproaches : FilterCall(f, j)

SpecCall == Init /\ [][NextCall]_vars

\* The two constructors of models.py on their own.
InitModels ==
    /\ InitNoStore
    /\ ret = NoCall
    /\ InitNoQuery
    /\ InitNoLimit
    /\ stream = <<>>
    /\ InitNoFilters

NextModels ==
    \/ \E d \in RawDesignations, n \in RawNames, k \in RawDiameters, h \in RawPhas :
          NewNearEarthObject(d, n, k, h)
    \/ \E d \in RawDesignations, t \in RawTimes, x \in RawDistances,
          v \in RawVelocities :
          NewCloseApproach(d, t, x, v)

SpecModels == InitModels /\ [][NextModels]_vars

\* limit on a plain iterator.
InitLimit ==
    /\ InitNoStore
    /\ ret = NoCall
    /\ InitNoQuery
    /\ InitNoLimit
    /\ stream \in SeqsUpTo(StreamValues, MaxStream)
    /\ InitNoFilters

NextLimit ==
    \/ \E n \in LimitBounds : LimitCall("stream", n)
    \/ LimitNext

SpecLimit == InitLimit /\ [][NextLimit]_vars

\* create_filters on its own.
InitFilters ==
    /\ InitNoStore
    /\ ret = NoCall
    /\ InitNoQuery
    /\ InitNoLimit
    /\ stream = <<>>
    /\ crit \in Criteria
    /\ extra \in ExtraArgs
    /\ cfState = "none"
    /\ filters = <<>>

NextFilters == CreateFilters

SpecFilters == InitFilters /\ [][NextFilters]_vars

\* ---------------------------------------------------------------- properties

Count(seq, x) == Cardinality({i \in DOMAIN seq : seq[i] = x})

Built == phase \in {"ready", "failed"}

\* Event j satisfies every predicate of P (a call that raises is not a true).
Matches(P, j) ==
    \A i \in 1..Len(P) : Call(P[i], j).exc = NoExc /\ Call(P[i], j).val

ExpectedQuery(P) == SelectSeq(_approaches, LAMBDA j : Matches(P, j))

\* Every event of the store refers to a body.
AllLinked == \A j \in Range(_approaches) : neoRef[j] # NoNeo

\* C1: on a store whose events are all linked, a stream of query(P) that has
\* ended has ended normally and has yielded exactly the events of the store
\* that satisfy every predicate of P, in the store's order; with P empty these
\* are all the events.
C1_QueryYieldsMatches ==
    (AllLinked /\ qState \in {"done", "raised"}) =>
        /\ qState = "done"
        /\ qYielded = ExpectedQuery(qFilters)

\* C2: once construction has completed, every event of the store's event
\* collection refers to a body with the event's _designation, and that body's
\* approaches hold the event exactly once, whatever iterable the events came in.
C2_EventsLinked ==
    phase = "ready" =>
        \A j \in Range(_approaches) :
            /\ neoRef[j] # NoNeo
            /\ neos[neoRef[j]].designation = approaches[j]._designation
            /\ Count(neoApproaches[neoRef[j]], j) = 1

Unlinkable ==
    {j \in 1..Len(approaches) :
        approaches[j]._designation \notin {neos[i].designation : i \in DOMAIN neos}}

\* C3: when some event names a designation no body has, construction fails
\* with the events before the first such event linked and no other; and a
\* ready store holds no event whose neo is unset.
C3_UnlinkableFails ==
    Built =>
        /\ Unlinkable # {} =>
              /\ phase = "failed"
              /\ \A j \in 1..Len(approaches) :
                    (neoRef[j] # NoNeo) <=> (\A u \in Unlinkable : j < u)
        /\ phase = "ready" => \A j \in Range(_approaches) : neoRef[j] # NoNeo

DistinctDesignations ==
    \A i, k \in DOMAIN neos : neos[i].designation = neos[k].designation => i = k

\* C4: with distinct designations, get_neo_by_designation(b.designation)
\* returns the body b.
C4_LookupByDesignation ==
    (ret.op = "get_neo_by_designation" /\ DistinctDesignations) =>
        \A i \in DOMAIN neos :
            neos[i].designation = ret.arg => ret.exc = NoExc /\ ret.val = i

DistinctNames ==
    \A i, k \in DOMAIN neos :
        (neos[i].name # None /\ neos[i].name = neos[k].name) => i = k

\* C5: get_neo_by_name(b.name) returns the body b when b has a name, and
\* get_neo_by_name of "" and of None returns None.
C5_LookupByName ==
    ret.op = "get_neo_by_name" =>
        /\ ret.arg \in {"", None} => ret.exc = NoExc /\ ret.val = NoNeo
        /\ DistinctNames =>
              \A i \in DOMAIN neos :
                  (neos[i].name # None /\ neos[i].name = ret.arg)
                      => ret.exc = NoExc /\ ret.val = i

\* C6: a lookup of a designation no body has, or of a name no body has,
\* returns None and raises nothing.
C6_LookupMiss ==
    /\ (ret.op = "get_neo_by_designation"
          /\ \A i \in DOMAIN neos : neos[i].designation # ret.arg)
         => ret.exc = NoExc /\ ret.val = NoNeo
    /\ (ret.op = "get_neo_by_name" /\ Truthy(ret.arg)
          /\ \A i \in DOMAIN neos : neos[i].name # ret.arg)
         => ret.exc = NoExc /\ ret.val = NoNeo

\* The table of criteria: the class and operator of the predicate of each.
CriteriaTable ==
    <<[key |-> "date",         kind |-> "DateFilter",      op |-> "eq"],
      [key |-> "start_date",   kind |-> "DateFilter",      op |-> "ge"],
      [key |-> "end_date",     kind |-> "DateFilter",      op |-> "le"],
      [key |-> "distance_min", kind |-> "DistanceFilter",  op |-> "ge"],
      [key |-> "distance_max", kind |-> "DistanceFilter",  op |-> "le"],
      [key |-> "velocity_min", kind |-> "VelocityFilter",  op |-> "ge"],
      [key |-> "velocity_max", kind |-> "VelocityFilter",  op |-> "le"],
      [key |-> "diameter_min", kind |-> "DiameterFilter",  op |-> "ge"],
      [key |-> "diameter_max", kind |-> "DiameterFilter",  op |-> "le"],
      [key |-> "hazardous",    kind |-> "HazardousFilter", op |-> "eq"]>>

RECURSIVE ExpectedFilters(_, _)
ExpectedFilters(c, b) ==
    IF b > Len(CriteriaTable) THEN <<>>
    ELSE (IF c[CriteriaTable[b].key] # Absent
          THEN <<Filter(CriteriaTable[b].kind, CriteriaTable[b].op,
                        c[CriteriaTable[b].key][1])>>
          ELSE <<>>)
         \o ExpectedFilters(c, b + 1)

\* C7: the collection create_filters returns holds, in the order of the
\* table, the predicate of each specified criterion: its class, its operator
\* and the criterion's value.
C7_FiltersFollowTable ==
    cfState = "returned" => filters = ExpectedFilters(crit, 1)

Specified == {p \in DOMAIN crit : crit[p] # Absent}

IsPredicate(e) == DOMAIN e = {"kind", "op", "value"}

\* C8: the collection create_filters returns holds predicates only, as many
\* as there are criteria that are not None, and hazardous=False puts a
\* Hazardous-equals-False predicate in it.
C8_OnePredicatePerCriterion ==
    cfState = "returned" =>
        /\ Len(filters) = Cardinality(Specified)
        /\ \A i \in 1..Len(filters) : IsPredicate(filters[i])
        /\ crit["hazardous"] = Some(FALSE) =>
              \E i \in 1..Len(filters) :
                  /\ IsPredicate(filters[i])
                  /\ filters[i].kind = "HazardousFilter"
                  /\ filters[i].op = "eq"
                  /\ filters[i].value = FALSE

ExpectedLimit ==
    IF lN = Absent \/ lN = Some(0) THEN stream
    ELSE SubSeq(stream, 1, Min(lN[1], Len(stream)))

\* C9: a stream of limit(stream, n) that has ended has ended normally and has
\* yielded the whole stream when n is 0 or None, and its first min(n, length)
\* values otherwise.
C9_LimitTakesFirstN ==
    (lSrc = "stream" /\ lState \in {"done", "raised"}) =>
        /\ lState = "done"
        /\ lYielded = ExpectedLimit

IsPermutation(P, Q) ==
    /\ Len(P) = Len(Q)
    /\ \A i \in 1..Len(P) : Count(P, P[i]) = Count(Q, P[i])

C14_HazardousFromCode ==
    (ret.op = "NearEarthObject" /\ ret.exc = NoExc) =>
        /\ ret.arg[4] = "Y" => ret.val.hazardous = TRUE
        /\ ret.arg[4] \in {"N", "", None} => ret.val.hazardous = FALSE

\* A NearEarthObject was built from the code "N".
C14_Witness ==
    /\ ret.op = "NearEarthObject"
    /\ ret.exc = NoExc
    /\ ret.arg[4] = "N"
    /\ ret.val.hazardous = FALSE

\* The raw number is absent, empty or no number.
Unknown(raw) == ~Truthy(raw) \/ ~Parseable(raw)

\* C15: building a NearEarthObject or a CloseApproach fails only for a
\* malformed time string; a diameter, distance or velocity that is absent,
\* empty or unparseable gives the not-a-number sentinel.
C15_UnknownNumbersDegrade ==
    /\ ret.op = "NearEarthObject" =>
          /\ ret.exc = NoExc
          /\ Unknown(ret.arg[3]) => ret.val.diameter = NaN
    /\ ret.op = "CloseApproach" =>
          /\ ret.exc # NoExc => (Truthy(ret.arg[2]) /\ ~WellFormedTime(ret.arg[2]))
          /\ ret.exc = NoExc =>
                /\ Unknown(ret.arg[3]) => ret.val.distance = NaN
                /\ Unknown(ret.arg[4]) => ret.val.velocity = NaN

\* The attribute a predicate of each kind is to compare: the calendar date
\* of the event's time, the event's distance, the event's velocity, the
\* diameter of the event's body, the hazardous flag of the event's body.
Extracted(kind, j) ==
    CASE kind = "DateFilter"      -> approaches[j].time.date
      [] kind = "DistanceFilter"  -> approaches[j].distance
      [] kind = "VelocityFilter"  -> approaches[j].velocity
      [] kind = "DiameterFilter"  -> neos[neoRef[j]].diameter
      [] kind = "HazardousFilter" -> neos[neoRef[j]].hazardous

\* C12: a predicate of a concrete kind called on a linked event returns
\* op(extracted, value), the extracted attribute on the left, and raises
\* nothing.
C12_CallComparesExtracted ==
    (ret.op = "call" /\ ret.arg[1].kind # "AttributeFilter"
        /\ neoRef[ret.arg[2]] # NoNeo) =>
        /\ ret.exc = NoExc
        /\ ret.val = IF ret.arg[1].kind = "HazardousFilter"
                     THEN Extracted("HazardousFilter", ret.arg[2]) = ret.arg[1].value
                     ELSE Compare(ret.arg[1].op,
                                  Extracted(ret.arg[1].kind, ret.arg[2]),
                                  ret.arg[1].value)

BaseFilter == [kind |-> "AttributeFilter", op |-> "eq", value |-> 10]

\* C16: a base AttributeFilter called on an event raises
\* UnsupportedCriterionError, and a stream of query whose collection holds
\* it, on a store that holds an event, ends with that exception.
C16_UnsupportedReachesCaller ==
    phase = "ready" =>
        /\ \A j \in Range(_approaches) :
              Call(BaseFilter, j).exc = "UnsupportedCriterionError"
        /\ (qState \in {"done", "raised"} /\ qFilters = <<BaseFilter>>
              /\ Len(_approaches) >= 1) =>
              /\ qState = "raised"
              /\ qExc = "UnsupportedCriterionError"

\* C13: once the store is ready, no call of get_neo_by_designation,
\* get_neo_by_name or query and no pull from a stream of query changes the
\* indexes, the event collection, an event or a body.
C13_ReadyStoreImmutable ==
    [][phase = "ready" => storeVars' = storeVars]_vars

\* A store with a linked event on which a lookup was made and a stream of
\* query was pulled to its end.
C13_Witness ==
    /\ phase = "ready"
    /\ Len(_approaches) >= 1
    /\ AllLinked
    /\ ret.op = "get_neo_by_name"
    /\ qState \in {"done", "raised"}
    /\ qPulls >= 1

====
